---- MODULE Spec2Model ----
(***************************************************************************)
(* InfraLink (src/infralink.py): link-identity normalisation, port         *)
(* priority, preferred-port resolution, duplicate detection and the Panel 1*)
(* analysis run.                                                           *)
(*                                                                         *)
(* A Python str is a sequence of one-character strings.  A missing cell    *)
(* (pd.NA after read_excel(...).convert_dtypes()) is the value NA and      *)
(* Python's None is the value None; both are one-element sequences holding *)
(* a token that is no character, so every cell value is a sequence.        *)
(***************************************************************************)
EXTENDS Integers, Sequences, FiniteSets, TLC

VARIABLES
    pc,                 \* position of the run / of the call
    source,             \* argument `source` (normalize_link, get_preferred_ports), `device_name`
    destination,        \* argument `destination`
    port,               \* argument `port` of port_priority_score
    df,                 \* argument `df` (get_preferred_ports, find_duplicate_ports, remove_duplicate_links_with_priority)
    ret,                \* value returned by the call
    main_df,            \* Panel 1: dataset A
    match_df,           \* Panel 1: dataset B
    all_links,          \* Panel 1: set all_links
    remaining,          \* Panel 1: elements of all_links the loop of line 297 has yet to visit
    port_corrections,   \* Panel 1: list port_corrections
    analysis_results,   \* Panel 1: list analysis_results
    missing_results,    \* Panel 1: list missing_results
    session_state,      \* st.session_state["phoenix_db_bytes"], None while the key is absent
    widgets,            \* the file each st.file_uploader holds, by widget key
    rendered,           \* what the last script run showed and read in panels 2 and 3
    uploaded            \* the file most recently put into Panel 1's "Phoenix Database"

vars == <<pc, source, destination, port, df, ret, main_df, match_df, all_links, remaining,
          port_corrections, analysis_results, missing_results,
          session_state, widgets, rendered, uploaded>>

\* the state of Panel 1, and the arguments of a function call
panel_vars == <<main_df, match_df, all_links, remaining,
                port_corrections, analysis_results, missing_results>>
call_vars == <<source, destination, port, df>>
\* the state of the browser session across script runs
session_vars == <<session_state, widgets, rendered, uploaded>>

(***************************************************************************)
(* Bounds                                                                  *)
(***************************************************************************)
MaxNameLen == 3
MaxPortLen == 3
MaxRows == 3
MaxMatchRows == 2

(***************************************************************************)
(* Values                                                                  *)
(***************************************************************************)
NA == <<"<NA>">>
None == <<"None">>

\* pd.isna(x)
isna(x) == x = NA \/ x = None

\* str(x)
str(x) ==
    IF x = NA THEN <<"<", "N", "A", ">">>
    ELSE IF x = None THEN <<"N", "o", "n", "e">>
    ELSE x

\* ord(c) of the characters the inputs are drawn from
CodePoint(c) ==
    CASE c = " " -> 32
      [] c = "/" -> 47
      [] c = "1" -> 49
      [] c = "2" -> 50
      [] c = "3" -> 51
      [] c = "<" -> 60
      [] c = ">" -> 62
      [] c = "A" -> 65
      [] c = "B" -> 66
      [] c = "C" -> 67
      [] c = "E" -> 69
      [] c = "G" -> 71
      [] c = "H" -> 72
      [] c = "I" -> 73
      [] c = "N" -> 78
      [] c = "R" -> 82
      [] c = "S" -> 83
      [] c = "T" -> 84
      [] c = "_" -> 95
      [] c = "a" -> 97
      [] c = "b" -> 98
      [] c = "e" -> 101
      [] c = "g" -> 103
      [] c = "h" -> 104
      [] c = "i" -> 105
      [] c = "n" -> 110
      [] c = "o" -> 111
      [] c = "t" -> 116

\* str.lower() on one character
LowerChar(c) ==
    CASE c = "A" -> "a"
      [] c = "B" -> "b"
      [] c = "C" -> "c"
      [] c = "E" -> "e"
      [] c = "G" -> "g"
      [] c = "H" -> "h"
      [] c = "I" -> "i"
      [] c = "N" -> "n"
      [] c = "R" -> "r"
      [] c = "S" -> "s"
      [] c = "T" -> "t"
      [] OTHER -> c

\* str.lower()
lower(s) == [i \in 1..Len(s) |-> LowerChar(s[i])]

\* str.startswith(prefix)
startswith(s, prefix) ==
    /\ Len(s) >= Len(prefix)
    /\ SubSeq(s, 1, Len(prefix)) = prefix

\* str.strip(): leading and trailing whitespace removed
strip(s) ==
    LET inner == {i \in 1..Len(s) : s[i] # " "}
    IN  IF inner = {} THEN << >>
        ELSE LET lo == CHOOSE i \in inner : \A j \in inner : i <= j
                 hi == CHOOSE i \in inner : \A j \in inner : j <= i
             IN  SubSeq(s, lo, hi)

\* str.split('_')
RECURSIVE split(_)
split(s) ==
    LET us == {i \in 1..Len(s) : s[i] = "_"}
    IN  IF us = {} THEN <<s>>
        ELSE LET i == CHOOSE k \in us : \A j \in us : k <= j
             IN  <<SubSeq(s, 1, i - 1)>> \o split(SubSeq(s, i + 1, Len(s)))

\* '_'.join(parts)
RECURSIVE join(_)
join(parts) ==
    IF Len(parts) = 0 THEN << >>
    ELSE IF Len(parts) = 1 THEN parts[1]
    ELSE parts[1] \o <<"_">> \o join(Tail(parts))

\* Python's a < b on str: lexicographic by code point
RECURSIVE StrLess(_, _)
StrLess(a, b) ==
    IF Len(b) = 0 THEN FALSE
    ELSE IF Len(a) = 0 THEN TRUE
    ELSE IF a[1] # b[1] THEN CodePoint(a[1]) < CodePoint(b[1])
    ELSE StrLess(Tail(a), Tail(b))

\* sorted([a, b]) as a tuple
sorted2(a, b) == IF StrLess(b, a) THEN <<b, a>> ELSE <<a, b>>

(***************************************************************************)
(* Utility functions                                                       *)
(***************************************************************************)
extract_match_part_last2(device_name) ==
    LET parts == split(device_name)
    IN  IF Len(parts) >= 2
        THEN join(SubSeq(parts, Len(parts) - 1, Len(parts)))
        ELSE device_name

extract_match_part(device_name) ==
    LET parts == split(device_name)
    IN  IF Len(parts) = 2 THEN parts[2]
        ELSE IF Len(parts) > 2
        THEN join(SubSeq(parts, Len(parts) - 1, Len(parts)))
        ELSE device_name

normalize_link_unsorted(src, dst) ==
    <<extract_match_part(strip(str(src))), extract_match_part(strip(str(dst)))>>

normalize_link(src, dst) ==
    LET src_match == extract_match_part(strip(str(src)))
        dst_match == extract_match_part(strip(str(dst)))
    IN  sorted2(src_match, dst_match)

port_priority_score_cased(p) ==
    IF isna(p) THEN 0
    ELSE IF startswith(str(p), <<"e", "t", "h">>) THEN 3
    ELSE IF startswith(str(p), <<"a", "e">>) THEN 2
    ELSE 1

port_priority_score(p) ==
    IF isna(p) THEN 0
    ELSE LET port_str == lower(str(p))
         IN  IF startswith(port_str, <<"e", "t", "h">>) THEN 3
             ELSE IF startswith(port_str, <<"a", "e">>) THEN 2
             ELSE 1

(***************************************************************************)
(* Data frames: a sequence of rows, each a record of its index label idx   *)
(* and the four required columns                                           *)
(***************************************************************************)
Row(src, sport, dst, dport) ==
    [idx |-> 0, Source |-> src, SourcePort |-> sport,
     Destination |-> dst, DestinationPort |-> dport]

\* the RangeIndex pd.read_excel gives, and reset_index(drop=True)
reset_index(rows) == [i \in 1..Len(rows) |-> [rows[i] EXCEPT !.idx = i - 1]]

\* filtered[col].astype(str).str.lower().str.startswith(prefix)
PortStartsWith(p, prefix) == startswith(lower(str(p)), prefix)

\* series.iloc[0] of the rows whose port in that column starts with "eth",
\* else of those starting with "ae", else of all rows (lines 57-68)
preferred_value(filtered, col) ==
    LET eth == SelectSeq(filtered, LAMBDA r : PortStartsWith(r[col], <<"e", "t", "h">>))
        ae == SelectSeq(filtered, LAMBDA r : PortStartsWith(r[col], <<"a", "e">>))
        eth_rows == IF Len(eth) = 0 THEN ae ELSE eth
    IN  IF Len(eth_rows) # 0 THEN eth_rows[1][col] ELSE filtered[1][col]

get_preferred_ports_merged(d, src, dst) ==
    LET filtered == SelectSeq(d, LAMBDA r :
                        \/ r.Source = src /\ r.Destination = dst
                        \/ r.Source = dst /\ r.Destination = src)
    IN  IF Len(filtered) = 0 THEN <<None, None>>
        ELSE <<preferred_value(filtered, "SourcePort"),
               preferred_value(filtered, "DestinationPort")>>

get_preferred_ports(d, src, dst) ==
    LET forward == SelectSeq(d, LAMBDA r : r.Source = src /\ r.Destination = dst)
        backward == SelectSeq(d, LAMBDA r : r.Source = dst /\ r.Destination = src)
        filtered == IF Len(forward) = 0 THEN backward ELSE forward
    IN  IF Len(filtered) = 0 THEN <<None, None>>
        ELSE <<preferred_value(filtered, "SourcePort"),
               preferred_value(filtered, "DestinationPort")>>

\* df[mask]: the rows whose mask entry is TRUE, in order
RECURSIVE boolean_mask(_, _)
boolean_mask(d, mask) ==
    IF Len(d) = 0 THEN << >>
    ELSE (IF mask[1] THEN <<d[1]>> ELSE << >>) \o boolean_mask(Tail(d), Tail(mask))

\* df['Source+Port'], df['Dest+Port'] (lines 87-88)
SourcePlusPort(r) == strip(str(r.Source)) \o <<"_">> \o strip(str(r.SourcePort))
DestPlusPort(r) == strip(str(r.Destination)) \o <<"_">> \o strip(str(r.DestinationPort))

\* series.value_counts()[k]
value_counts(series, k) == Cardinality({i \in 1..Len(series) : series[i] = k})

\* the row with the four columns find_duplicate_ports adds
FlaggedRow(r, src_dup, dst_dup) ==
    [idx |-> r.idx, Source |-> r.Source, SourcePort |-> r.SourcePort,
     Destination |-> r.Destination, DestinationPort |-> r.DestinationPort,
     SourcePlusPort |-> SourcePlusPort(r), DestPlusPort |-> DestPlusPort(r),
     SourcePortDuplicate |-> src_dup, DestinationPortDuplicate |-> dst_dup]

find_duplicate_ports_shared_counts(d) ==
    LET sp == [i \in 1..Len(d) |-> SourcePlusPort(d[i])]
        dp == [i \in 1..Len(d) |-> DestPlusPort(d[i])]
        flagged == [i \in 1..Len(d) |->
                      FlaggedRow(d[i], value_counts(sp \o dp, sp[i]) > 1,
                                       value_counts(sp \o dp, dp[i]) > 1)]
    IN  boolean_mask(flagged, [i \in 1..Len(d) |->
            flagged[i].SourcePortDuplicate \/ flagged[i].DestinationPortDuplicate])

find_duplicate_ports(d) ==
    LET sp == [i \in 1..Len(d) |-> SourcePlusPort(d[i])]
        dp == [i \in 1..Len(d) |-> DestPlusPort(d[i])]
        flagged == [i \in 1..Len(d) |->
                      FlaggedRow(d[i], value_counts(sp, sp[i]) > 1,
                                       value_counts(dp, dp[i]) > 1)]
    IN  boolean_mask(flagged, [i \in 1..Len(d) |->
            flagged[i].SourcePortDuplicate \/ flagged[i].DestinationPortDuplicate])

\* df['Normalized'] and df['Total Priority'] of a row (lines 101-106)
Normalized(r) == normalize_link(r.Source, r.Destination)
TotalPriority(r) == port_priority_score(r.SourcePort) + port_priority_score(r.DestinationPort)

IndexOrders(n) ==
    {p \in [1..n -> 1..n] : \A i, j \in 1..n : i # j => p[i] # p[j]}

\* df.sort_values('Total Priority', ascending=False).  No kind is given, so
\* pandas sorts with its default 'quicksort', which is not a stable sort: rows
\* of equal Total Priority may come out in any order.
sort_values_priority(d) ==
    {[i \in 1..Len(d) |-> d[p[i]]] :
        p \in {q \in IndexOrders(Len(d)) :
                 \A i \in 1..(Len(d) - 1) :
                    TotalPriority(d[q[i]]) >= TotalPriority(d[q[i + 1]])}}

duplicated_keep_false(d) ==
    [i \in 1..Len(d) |-> \E j \in 1..Len(d) : j # i /\ Normalized(d[j]) = Normalized(d[i])]

\* df.duplicated(subset=['Normalized'], keep='first')
duplicated(d) ==
    [i \in 1..Len(d) |-> \E j \in 1..(i - 1) : Normalized(d[j]) = Normalized(d[i])]

\* df.drop_duplicates(subset=['Normalized'], keep='first')
drop_duplicates(d) ==
    boolean_mask(d, [i \in 1..Len(d) |->
        \A j \in 1..(i - 1) : Normalized(d[j]) # Normalized(d[i])])

\* the results remove_duplicate_links_with_priority can return, one for each
\* order the sort can produce
remove_duplicate_links_with_priority(d) ==
    {[cleaned |-> drop_duplicates(sorted), duplicates |-> boolean_mask(sorted, duplicated(sorted))] :
        sorted \in sort_values_priority(d)}

(***************************************************************************)
(* Panel 1: Main Link Analysis (lines 233-358)                             *)
(***************************************************************************)
\* Python's a <= b on the tuples normalize_link returns
TupleLeq(a, b) ==
    \/ StrLess(a[1], b[1])
    \/ a[1] = b[1] /\ ~StrLess(b[2], a[2])

\* df.sort_values(by=['Normalized']).reset_index(drop=True).  No kind is
\* given, so pandas sorts with its default 'quicksort', which is not a stable
\* sort: rows of equal Normalized may come out in any order.
sort_values_normalized(d) ==
    {reset_index([i \in 1..Len(d) |-> d[p[i]]]) :
        p \in {q \in IndexOrders(Len(d)) :
                 \A i \in 1..(Len(d) - 1) :
                    TupleLeq(Normalized(d[q[i]]), Normalized(d[q[i + 1]]))}}

\* set(df['Normalized'])
link_set(d) == {Normalized(d[i]) : i \in 1..Len(d)}

\* main_df[main_df['Normalized'] == norm_link], a group of groupby('Normalized')
link_group(d, norm_link) ==
    SelectSeq(d, LAMBDA r : Normalized(r) = norm_link)

\* str(norm_link) of a tuple of two str
str_tuple(t) ==
    <<"(", "'">> \o t[1] \o <<"'", ",", " ", "'">> \o t[2] \o <<"'", ")">>

\* f"{src} to {dst}"
link_name(src, dst) == src \o <<" ", "t", "o", " ">> \o dst

\* bool(x) of a returned port; bool(pd.NA) raises TypeError
raises_on_bool(x) == x = NA
truthy(x) == x # None /\ x # << >>

\* str(corr_port).strip() if corr_port else 'N/A' (lines 277-278)
corrected_text(corr_port) ==
    IF truthy(corr_port) THEN strip(str(corr_port)) ELSE <<"N", "/", "A">>

\* the records lines 274-294 append for the rows of one group
RECURSIVE group_corrections(_, _, _, _)
group_corrections(rows, src, dst, corr) ==
    IF Len(rows) = 0 THEN << >>
    ELSE LET row == rows[1]
             orig_src == strip(str(row.SourcePort))
             orig_dst == strip(str(row.DestinationPort))
             corr_src == corrected_text(corr[1])
             corr_dst == corrected_text(corr[2])
             record == [LinkName |-> link_name(src, dst),
                        Source |-> src,
                        OriginalSourcePort |-> orig_src,
                        CorrectedSourcePort |-> corr_src,
                        Destination |-> dst,
                        OriginalDestinationPort |-> orig_dst,
                        CorrectedDestinationPort |-> corr_dst,
                        PortPriorityApplied |->
                            \/ startswith(lower(corr_src), <<"e", "t", "h">>)
                            \/ startswith(lower(corr_src), <<"a", "e">>)
                            \/ startswith(lower(corr_dst), <<"e", "t", "h">>)
                            \/ startswith(lower(corr_dst), <<"a", "e">>),
                        Issue |-> "Port Mismatch"]
         IN  (IF orig_src # corr_src \/ orig_dst # corr_dst THEN <<record>> ELSE << >>)
                 \o group_corrections(Tail(rows), src, dst, corr)

\* the first rows of the groups of d, in the order groupby yields the groups
\* (sorted by key, which is the order of the sorted frame)
group_heads(d) ==
    SelectSeq(d, LAMBDA r : \A i \in 1..Len(d) :
                    Normalized(d[i]) = Normalized(r) => d[i].idx >= r.idx)

\* the corrected pair of the group whose first row is sample_row (lines 269-271)
group_preferred(d, sample_row) ==
    get_preferred_ports(d, sample_row.Source, sample_row.Destination)

\* whether the loop of lines 261-294 raises: a group of more than one row
\* whose corrected source or destination port is pd.NA
corrections_raise(d) ==
    \E k \in 1..Len(group_heads(d)) :
        LET sample_row == group_heads(d)[k]
            corr == group_preferred(d, sample_row)
        IN  /\ Len(link_group(d, Normalized(sample_row))) > 1
            /\ raises_on_bool(corr[1]) \/ raises_on_bool(corr[2])

\* the list port_corrections after the loop of lines 261-294
RECURSIVE corrections_of(_, _)
corrections_of(d, heads) ==
    IF Len(heads) = 0 THEN << >>
    ELSE LET sample_row == heads[1]
             group == link_group(d, Normalized(sample_row))
         IN  (IF Len(group) > 1
              THEN group_corrections(group, sample_row.Source, sample_row.Destination,
                                     group_preferred(d, sample_row))
              ELSE << >>)
                 \o corrections_of(d, Tail(heads))

\* the record line 313 appends for norm_link
analysis_record(d, match_links, norm_link) ==
    LET original == link_group(d, norm_link)[1]
    IN  [LinkName |-> link_name(original.Source, original.Destination),
         Source |-> original.Source,
         OriginalSourcePort |-> original.SourcePort,
         Destination |-> original.Destination,
         OriginalDestinationPort |-> original.DestinationPort,
         MatchStatus |-> IF norm_link \in match_links THEN "Found" ELSE "Missing",
         NormalizedLink |-> str_tuple(norm_link)]

\* the record line 324 appends for norm_link
missing_record(d, norm_link) ==
    LET original == link_group(d, norm_link)[1]
        corr == get_preferred_ports(d, original.Source, original.Destination)
    IN  [LinkName |-> link_name(original.Source, original.Destination),
         Source |-> original.Source,
         CorrectedSourcePort |-> corr[1],
         Destination |-> original.Destination,
         CorrectedDestinationPort |-> corr[2],
         NormalizedLink |-> str_tuple(norm_link)]

(***************************************************************************)
(* Panel 3: Remove Duplicate Links, the summary (lines 479-531)            *)
(***************************************************************************)
\* str of one decimal digit
Digit(n) ==
    CASE n = 0 -> "0" [] n = 1 -> "1" [] n = 2 -> "2" [] n = 3 -> "3"
      [] n = 4 -> "4" [] n = 5 -> "5" [] n = 6 -> "6" [] n = 7 -> "7"
      [] n = 8 -> "8" [] n = 9 -> "9"

\* (df.index + 1).astype(str), for one index value
RECURSIVE index_str(_)
index_str(n) ==
    IF n < 10 THEN <<Digit(n)>> ELSE index_str(n \div 10) \o <<Digit(n % 10)>>

\* df['Link ID'] = "Row " + (df.index + 1).astype(str)   (lines 480-481)
with_link_id(d) ==
    [i \in 1..Len(d) |->
        [idx |-> d[i].idx, Source |-> d[i].Source, SourcePort |-> d[i].SourcePort,
         Destination |-> d[i].Destination, DestinationPort |-> d[i].DestinationPort,
         LinkID |-> <<"R", "o", "w", " ">> \o index_str(d[i].idx + 1)]]

\* df[df.duplicated(subset=['Normalized'], keep=False)]   (line 491)
all_duplicates(d) ==
    boolean_mask(d, [i \in 1..Len(d) |->
        \E j \in 1..Len(d) : j # i /\ Normalized(d[j]) = Normalized(d[i])])

\* all_duplicates['Keep Status']   (lines 492-494)
keep_status(ad) ==
    [i \in 1..Len(ad) |-> IF duplicated(ad)[i] THEN "Duplicate (would be removed)"
                          ELSE "Original (would be kept)"]

\* the keys of groupby('Normalized'), which sorts them
RECURSIVE sorted_keys(_)
sorted_keys(S) ==
    IF S = {} THEN << >>
    ELSE LET least == CHOOSE k \in S : \A other \in S : TupleLeq(k, other)
         IN  <<least>> \o sorted_keys(S \ {least})

\* the aggregation 'first' of groupby: the first value of the column that is
\* not null, and null when the group has none
agg_first(rows, col) ==
    LET valid == SelectSeq(rows, LAMBDA r : ~isna(r[col]))
    IN  IF Len(valid) = 0 THEN NA ELSE valid[1][col]

\* ', '.join(map(str, ids))
RECURSIVE comma_join(_)
comma_join(ids) ==
    IF Len(ids) = 0 THEN << >>
    ELSE IF Len(ids) = 1 THEN str(ids[1])
    ELSE str(ids[1]) \o <<",", " ">> \o comma_join(Tail(ids))

\* kept_row of line 514: the first row of the group whose Keep Status is
\* "Original (would be kept)"
kept_row(ad, norm_link) ==
    LET status == keep_status(ad)
        originals == boolean_mask(ad, [i \in 1..Len(ad) |->
                         /\ Normalized(ad[i]) = norm_link
                         /\ status[i] = "Original (would be kept)"])
    IN  originals[1]

\* to_be_removed of line 518
to_be_removed(ad, norm_link) ==
    LET all_link_ids == [i \in 1..Len(link_group(ad, norm_link)) |->
                            link_group(ad, norm_link)[i].LinkID]
        kept_link_id == kept_row(ad, norm_link).LinkID
    IN  SelectSeq(all_link_ids, LAMBDA lid : lid # kept_link_id)

\* the dict lines 521-529 append for one row of grouped_duplicates
summary_record(ad, norm_link) ==
    LET rows == link_group(ad, norm_link)
        all_link_ids == [i \in 1..Len(rows) |-> rows[i].LinkID]
        removed == to_be_removed(ad, norm_link)
    IN  [LinkName |-> link_name(str(agg_first(rows, "Source")),
                                str(agg_first(rows, "Destination"))),
         LinkIDs |-> comma_join(all_link_ids),
         Source |-> agg_first(rows, "Source"),
         SourcePort |-> agg_first(rows, "SourcePort"),
         Destination |-> agg_first(rows, "Destination"),
         DestinationPort |-> agg_first(rows, "DestinationPort"),
         ToBeRemoved |-> IF Len(removed) # 0 THEN comma_join(removed)
                         ELSE <<"N", "o", "n", "e">>]

\* summary_data after the loop of lines 508-529
summary_data(d) ==
    LET ad == all_duplicates(d)
        keys == sorted_keys(link_set(ad))
    IN  [k \in 1..Len(keys) |-> summary_record(ad, keys[k])]

(***************************************************************************)
(* The script across reruns: uploaders and the Phoenix cache               *)
(* (lines 213-231, 233-243, 361-373, 461-473)                              *)
(***************************************************************************)
\* an UploadedFile holding the bytes b; the object is truthy whatever it holds
UploadedFile(b) == <<"UploadedFile", b>>
getvalue(file) == file[2]

\* pd.read_excel raises on a file of zero bytes; the bytes of a workbook are
\* modelled by its header row
read_raises(bytes) == bytes = << >>

\* canonicalize_columns on one column name (lines 34-46)
canonicalize_column(c) ==
    CASE c \in {"Source", "src"} -> "Source"
      [] c \in {"Source Port", "src_port"} -> "Source Port"
      [] c \in {"Destination", "dest"} -> "Destination"
      [] c \in {"Destination Port", "dest_port"} -> "Destination Port"
      [] OTHER -> c

\* canonicalize_columns(read_excel_any(source)).columns
columns(bytes) == [i \in 1..Len(bytes) |-> canonicalize_column(bytes[i])]

required_cols == <<"Source", "Source Port", "Destination", "Destination Port">>

\* missing = [c for c in required_cols if c not in df.columns]
missing_columns(cols) ==
    SelectSeq(required_cols, LAMBDA c : \A i \in 1..Len(cols) : cols[i] # c)

\* lines 221-231: the cache after Panel 1's uploaders
store_phoenix(cache, match_db) ==
    IF match_db # None THEN getvalue(match_db) ELSE cache

\* lines 233-243: Panel 1 reaches st.stop().  A read that raises leaves the
\* try block for line 357 instead; st.stop() raises a StopException, which is
\* not an Exception, so line 357 does not catch it and the script run ends.
tab_main_stops(main_db, match_db) ==
    /\ main_db # None /\ match_db # None
    /\ ~read_raises(getvalue(main_db)) /\ ~read_raises(getvalue(match_db))
    /\ \/ Len(missing_columns(columns(getvalue(main_db)))) # 0
       \/ Len(missing_columns(columns(getvalue(match_db)))) # 0

\* lines 365-373 and 465-473: which input a panel reads.  own is the value of
\* the panel's uploader, None when it holds no file or is not shown.
panel_source(phoenix_bytes, own) ==
    IF truthy(phoenix_bytes) THEN [source |-> "phoenix_bytes", read |-> phoenix_bytes]
    ELSE IF own # None THEN [source |-> "uploader", read |-> getvalue(own)]
    ELSE [source |-> "nothing", read |-> None]

NoWidgets == [main_db |-> None, match_db |-> None, match_db_dup |-> None,
              file_remove_dup |-> None]

\* one run of the script, lines 213-589, with the uploaders holding w: the
\* cache, the uploaders' values and what panels 2 and 3 showed after it.  An
\* uploader the run did not show loses its file.
script_run(cache, w) ==
    LET phoenix_bytes == store_phoenix(cache, w.match_db)
        stopped == tab_main_stops(w.main_db, w.match_db)
        shown == ~stopped /\ ~truthy(phoenix_bytes)
        match_db_dup == IF shown THEN w.match_db_dup ELSE None
        file_remove_dup == IF shown THEN w.file_remove_dup ELSE None
    IN  [session_state |-> phoenix_bytes,
         widgets |-> [main_db |-> w.main_db, match_db |-> w.match_db,
                      match_db_dup |-> match_db_dup,
                      file_remove_dup |-> file_remove_dup],
         rendered |-> [stopped |-> stopped,
                       match_db_dup |-> shown,
                       file_remove_dup |-> shown,
                       dup_ports |-> IF stopped THEN panel_source(None, None)
                                     ELSE panel_source(phoenix_bytes, match_db_dup),
                       remove_dup |-> IF stopped THEN panel_source(None, None)
                                      ELSE panel_source(phoenix_bytes, file_remove_dup)]]

\* the session of a specification that studies one run or one call
SessionIdle ==
    /\ session_state = None
    /\ widgets = NoWidgets
    /\ rendered = script_run(None, NoWidgets).rendered
    /\ uploaded = None

(***************************************************************************)
(* Input sets                                                              *)
(***************************************************************************)
\* all strings over alphabet S of length at most n
StringsUpTo(S, n) == UNION {[1..k -> S] : k \in 0..n}

NameAlphabet == {" ", "A", "_", "b"}
Names == StringsUpTo(NameAlphabet, MaxNameLen)
ExampleNames ==
    { <<"R", "1">>,
      <<"S", "I", "T", "E", "_", "R", "1">>,
      <<"A", "_", "B", "_", "R", "1">>,
      <<"A", "_", "B", "_", "C", "_", "R", "1">> }

PortAlphabet == {"e", "E", "t", "h", "a", "A", "1"}
PortStrings == StringsUpTo(PortAlphabet, MaxPortLen) \ {<< >>}
PortValues == PortStrings \cup {NA, None}

NoData == << >>

\* device names
R1 == <<"R", "1">>
R2 == <<"R", "2">>
R3 == <<"R", "3">>

\* every data frame of 1..n rows drawn from Rows, as read from a sheet
DataFrames(Rows, n) == {reset_index(rows) : rows \in UNION {[1..k -> Rows] : k \in 1..n}}

R1_padded == <<"R", "1", " ">>

PhoenixRows ==
    {Row(p[1], sp, p[2], dp) :
        p \in {<<R1, R2>>, <<R2, R1>>, <<R1_padded, R3>>},
        sp \in {<<"E", "t", "h", "1">>, <<"a", "e", "1">>},
        dp \in {<<"E", "t", "h", "1">>, NA}}

S_R1 == <<"S", "_", "R", "1">>

\* rows of dataset A: three spellings of the link R1-R2 and one of R1-R3, and
\* the row R1 Eth1/1 - R2 Eth2/1 written from the side of R2
MainRows ==
    {Row(R2, <<"E", "t", "h", "2", "/", "1">>, R1, <<"E", "t", "h", "1", "/", "1">>)} \cup
    {Row(p[1], q[1], p[2], q[2]) :
        p \in {<<R1, R2>>, <<R2, R1>>, <<S_R1, R2>>, <<R3, R1>>},
        q \in {<< <<"E", "t", "h", "1", "/", "1">>, <<"E", "t", "h", "2", "/", "1">> >>,
               << <<"a", "e", "1">>, <<"a", "e", "2">> >>,
               << <<"a", "e", "1", " ">>, <<"a", "e", "2">> >>,
               << NA, <<"G", "i", "2">> >>}}

\* rows of dataset B
MatchRows ==
    {Row(R2, <<"a", "e", "2">>, R1, <<"a", "e", "1">>),
     Row(R2, <<"a", "e", "2">>, R3, <<"a", "e", "3">>)}

ResolverRows ==
    {Row(p[1], sp, p[2], dp) :
        p \in {<<R1, R2>>, <<R2, R1>>, <<R1, R3>>},
        sp \in {<<"E", "t", "h", "1">>, <<"A", "E", "1">>, <<"G", "i", "1">>, NA},
        dp \in {<<"a", "e", "2">>, NA}}

\* rows whose devices and ports contain "_": SW_1 with port 1, SW with port
\* 1_1 and SW with port 1 on the source side, the same with RT on the other
SW == <<"S", "W">>
SW_1 == <<"S", "W", "_", "1">>
RT == <<"R", "T">>
RT_1 == <<"R", "T", "_", "1">>

PortKeyRows ==
    {Row(a[1], a[2], b[1], b[2]) :
        a \in {<<SW_1, <<"1">> >>, <<SW, <<"1", "_", "1">> >>, <<SW, <<"1">> >>},
        b \in {<<RT_1, <<"1">> >>, <<RT, <<"1", "_", "1">> >>, <<RT, <<"1">> >>}}

\* workbooks by their header row: a Phoenix Database, one with a Link ID
\* column and other spellings of the names, one without the port columns,
\* and a file of zero bytes
PhoenixBook == <<"Source", "Source Port", "Destination", "Destination Port">>
PhoenixBookIds == <<"Link ID", "src", "src_port", "dest", "dest_port">>
NoPortsBook == <<"Source", "Destination">>
EmptyFile == << >>

Files == {UploadedFile(b) : b \in {PhoenixBook, PhoenixBookIds, NoPortsBook, EmptyFile}}

ResolverQueries == {<<R1, R2>>, <<R2, R1>>, <<R2, R3>>}

(***************************************************************************)
(* A run of Panel 1 with both files uploaded (specification Spec)          *)
(***************************************************************************)
Init ==
    /\ pc = "uploaded"
    /\ main_df \in DataFrames(MainRows, MaxRows)
    /\ match_df \in DataFrames(MatchRows, MaxMatchRows)
    /\ all_links = {} /\ remaining = {}
    /\ port_corrections = << >> /\ analysis_results = << >> /\ missing_results = << >>
    /\ source = << >> /\ destination = << >> /\ port = None /\ df = NoData /\ ret = None
    /\ SessionIdle

\* lines 246-256
SortLinks ==
    /\ pc = "uploaded"
    /\ main_df' \in sort_values_normalized(main_df)
    /\ match_df' \in sort_values_normalized(match_df)
    /\ all_links' = link_set(main_df)
    /\ remaining' = link_set(main_df)
    /\ pc' = "sorted"
    /\ UNCHANGED <<session_vars, call_vars, ret, port_corrections, analysis_results, missing_results>>

\* lines 260-294; an exception leaves the try block for line 357, which shows
\* the error and none of the reports
PortCorrectionLoop ==
    /\ pc = "sorted"
    /\ IF corrections_raise(main_df)
       THEN /\ pc' = "error"
            /\ port_corrections' = << >>
       ELSE /\ pc' = "analysis"
            /\ port_corrections' = corrections_of(main_df, group_heads(main_df))
    /\ UNCHANGED <<session_vars, call_vars, ret, main_df, match_df, all_links, remaining,
                   analysis_results, missing_results>>

\* one iteration of the loop of lines 297-331; a set yields its elements in
\* an order the program does not choose
AnalyseLink ==
    /\ pc = "analysis"
    /\ \E norm_link \in remaining :
          /\ remaining' = remaining \ {norm_link}
          /\ analysis_results' =
                Append(analysis_results,
                       analysis_record(main_df, link_set(match_df), norm_link))
          /\ missing_results' =
                IF norm_link \in link_set(match_df) THEN missing_results
                ELSE Append(missing_results, missing_record(main_df, norm_link))
    /\ UNCHANGED <<pc, session_vars, call_vars, ret, main_df, match_df, all_links, port_corrections>>

\* lines 333-355: the three reports are shown
ShowReports ==
    /\ pc = "analysis"
    /\ remaining = {}
    /\ pc' = "done"
    /\ UNCHANGED <<session_vars, call_vars, ret, panel_vars>>

Next == SortLinks \/ PortCorrectionLoop \/ AnalyseLink \/ ShowReports

Spec == Init /\ [][Next]_vars

(***************************************************************************)
(* Calls of the pure string functions (specification SpecText)             *)
(***************************************************************************)
PanelIdle ==
    /\ main_df = NoData /\ match_df = NoData /\ all_links = {} /\ remaining = {}
    /\ port_corrections = << >> /\ analysis_results = << >> /\ missing_results = << >>

InitText ==
    /\ PanelIdle
    /\ SessionIdle
    /\ df = NoData
    /\ ret = None
    /\ \/ /\ pc = "extract_match_part"
          /\ source \in Names \cup ExampleNames
          /\ destination = << >>
          /\ port = None
       \/ /\ pc = "normalize_link"
          /\ source \in Names
          /\ destination \in Names
          /\ port = None
       \/ /\ pc = "port_priority_score"
          /\ source = << >>
          /\ destination = << >>
          /\ port \in PortValues

CallExtract ==
    /\ pc = "extract_match_part"
    /\ ret' = extract_match_part(source)
    /\ pc' = "extracted"
    /\ UNCHANGED <<session_vars, call_vars, panel_vars>>

CallNormalize ==
    /\ pc = "normalize_link"
    /\ ret' = [ab |-> normalize_link(source, destination),
               ba |-> normalize_link(destination, source)]
    /\ pc' = "normalized"
    /\ UNCHANGED <<session_vars, call_vars, panel_vars>>

CallScore ==
    /\ pc = "port_priority_score"
    /\ ret' = port_priority_score(port)
    /\ pc' = "scored"
    /\ UNCHANGED <<session_vars, call_vars, panel_vars>>

NextText == CallExtract \/ CallNormalize \/ CallScore

SpecText == InitText /\ [][NextText]_vars

(***************************************************************************)
(* Calls of get_preferred_ports (specification SpecResolver)               *)
(***************************************************************************)
InitResolver ==
    /\ PanelIdle
    /\ SessionIdle
    /\ pc = "get_preferred_ports"
    /\ df \in DataFrames(ResolverRows, MaxRows)
    /\ \E q \in ResolverQueries : source = q[1] /\ destination = q[2]
    /\ port = None
    /\ ret = None

CallGetPreferredPorts ==
    /\ pc = "get_preferred_ports"
    /\ ret' = get_preferred_ports(df, source, destination)
    /\ pc' = "resolved"
    /\ UNCHANGED <<session_vars, call_vars, panel_vars>>

NextResolver == CallGetPreferredPorts

SpecResolver == InitResolver /\ [][NextResolver]_vars

(***************************************************************************)
(* Calls of find_duplicate_ports and remove_duplicate_links_with_priority  *)
(* on a Phoenix data frame (specification SpecPhoenix)                     *)
(***************************************************************************)
InitPhoenix ==
    /\ PanelIdle
    /\ SessionIdle
    /\ pc \in {"find_duplicate_ports", "remove_duplicate_links_with_priority",
             "tab_remove_dup"}
    /\ df \in DataFrames(PhoenixRows, MaxRows)
    /\ source = << >>
    /\ destination = << >>
    /\ port = None
    /\ ret = None

CallFindDuplicatePorts ==
    /\ pc = "find_duplicate_ports"
    /\ ret' = find_duplicate_ports(df)
    /\ pc' = "ports_checked"
    /\ UNCHANGED <<session_vars, call_vars, panel_vars>>

CallRemoveDuplicateLinks ==
    /\ pc = "remove_duplicate_links_with_priority"
    /\ ret' \in remove_duplicate_links_with_priority(df)
    /\ pc' = "deduplicated"
    /\ UNCHANGED <<session_vars, call_vars, panel_vars>>

\* the else branch of tab_remove_dup, lines 479-531, for a frame that has the
\* required columns and no Link ID column
TabRemoveDup ==
    /\ pc = "tab_remove_dup"
    /\ \E result \in remove_duplicate_links_with_priority(with_link_id(df)) :
          ret' = [cleaned |-> result.cleaned, duplicates |-> result.duplicates,
                  summary |-> summary_data(with_link_id(df))]
    /\ pc' = "summarised"
    /\ UNCHANGED <<session_vars, call_vars, panel_vars>>

NextPhoenix == CallFindDuplicatePorts \/ CallRemoveDuplicateLinks \/ TabRemoveDup

SpecPhoenix == InitPhoenix /\ [][NextPhoenix]_vars

(***************************************************************************)
(* find_duplicate_ports on device names and ports that contain "_"         *)
(***************************************************************************)
InitPortKeys ==
    /\ PanelIdle
    /\ SessionIdle
    /\ pc = "find_duplicate_ports"
    /\ df \in DataFrames(PortKeyRows, MaxRows)
    /\ source = << >>
    /\ destination = << >>
    /\ port = None
    /\ ret = None

NextPortKeys == CallFindDuplicatePorts

SpecPortKeys == InitPortKeys /\ [][NextPortKeys]_vars

(***************************************************************************)
(* A browser session: every interaction reruns the script                  *)
(* (specification SpecSession)                                             *)
(***************************************************************************)
InitSession ==
    /\ PanelIdle
    /\ SessionIdle
    /\ pc = "session"
    /\ source = << >> /\ destination = << >> /\ port = None /\ df = NoData /\ ret = None

\* the script run that follows an interaction leaving the uploaders as w
Rerun(w) ==
    LET run == script_run(session_state, w)
    IN  /\ session_state' = run.session_state
        /\ widgets' = run.widgets
        /\ rendered' = run.rendered
        /\ UNCHANGED <<pc, call_vars, ret, panel_vars>>

\* line 216: a file is put into "Main Database", or taken out of it
UploadMainDb ==
    /\ pc = "session"
    /\ \E f \in Files : Rerun([widgets EXCEPT !.main_db = f])
    /\ UNCHANGED uploaded

ClearMainDb ==
    /\ pc = "session"
    /\ widgets.main_db # None
    /\ Rerun([widgets EXCEPT !.main_db = None])
    /\ UNCHANGED uploaded

\* line 218: a file is put into Panel 1's "Phoenix Database", or taken out
UploadMatchDb ==
    /\ pc = "session"
    /\ \E f \in Files :
          /\ Rerun([widgets EXCEPT !.match_db = f])
          /\ uploaded' = f

ClearMatchDb ==
    /\ pc = "session"
    /\ widgets.match_db # None
    /\ Rerun([widgets EXCEPT !.match_db = None])
    /\ UNCHANGED uploaded

\* line 368: a file is put into Panel 2's uploader, which the last run showed
UploadMatchDbDup ==
    /\ pc = "session"
    /\ rendered.match_db_dup
    /\ \E f \in Files : Rerun([widgets EXCEPT !.match_db_dup = f])
    /\ UNCHANGED uploaded

\* line 468: a file is put into Panel 3's uploader, which the last run showed
UploadFileRemoveDup ==
    /\ pc = "session"
    /\ rendered.file_remove_dup
    /\ \E f \in Files : Rerun([widgets EXCEPT !.file_remove_dup = f])
    /\ UNCHANGED uploaded

NextSession ==
    \/ UploadMainDb \/ ClearMainDb \/ UploadMatchDb \/ ClearMatchDb
    \/ UploadMatchDbDup \/ UploadFileRemoveDup

SpecSession == InitSession /\ [][NextSession]_vars

(***************************************************************************)
(* Properties of the string functions                                      *)
(***************************************************************************)
\* positions of "_" in s
Underscores(s) == {i \in 1..Len(s) : s[i] = "_"}

\* the text of s after position u
After(s, u) == SubSeq(s, u + 1, Len(s))

\* a <= b in lexicographic code-point order, stated by the first difference
LexLeq(a, b) ==
    \/ /\ Len(a) <= Len(b)
       /\ \A i \in 1..Len(a) : a[i] = b[i]
    \/ \E i \in 1..Len(a) :
          /\ i <= Len(b)
          /\ \A j \in 1..(i - 1) : a[j] = b[j]
          /\ CodePoint(a[i]) < CodePoint(b[i])

\* C7: normalize_link(a, b) = normalize_link(b, a), and the result is the two
\* trimmed names' match tokens in non-decreasing lexicographic order.
C7_NormalizeSymmetricSorted ==
    pc = "normalized" =>
        LET ta == extract_match_part(strip(source))
            tb == extract_match_part(strip(destination))
        IN  /\ ret.ab = ret.ba
            /\ ret.ab \in {<<ta, tb>>, <<tb, ta>>}
            /\ LexLeq(ret.ab[1], ret.ab[2])

\* C7 witness: a call whose tokens arrive in decreasing order and are swapped.
C7_Witness ==
    /\ pc = "normalized"
    /\ source = <<" ", "b", " ">>
    /\ destination = <<"b", "_", "A">>
    /\ ret.ab = << <<"A">>, <<"b">> >>

\* C8: with n the number of "_"-separated tokens, extract_match_part returns
\* the whole name when n = 1, the text after the underscore when n = 2, and
\* the text after the second-to-last underscore when n >= 3; the four
\* documented examples evaluate as documented.
C8_ExtractByTokenCount ==
    pc = "extracted" =>
        LET us == Underscores(source)
            n == Cardinality(us) + 1
        IN  /\ n = 1 => ret = source
            /\ n = 2 => \E u \in us : ret = After(source, u)
            /\ n >= 3 => \E u \in us :
                  /\ Cardinality({v \in us : v > u}) = 1
                  /\ ret = After(source, u)
            /\ source = <<"R", "1">> => ret = <<"R", "1">>
            /\ source = <<"S", "I", "T", "E", "_", "R", "1">> => ret = <<"R", "1">>
            /\ source = <<"A", "_", "B", "_", "R", "1">> => ret = <<"B", "_", "R", "1">>
            /\ source = <<"A", "_", "B", "_", "C", "_", "R", "1">>
                  => ret = <<"C", "_", "R", "1">>

\* C8 witness: the four-token example has been extracted.
C8_Witness ==
    /\ pc = "extracted"
    /\ source = <<"A", "_", "B", "_", "C", "_", "R", "1">>
    /\ ret = <<"C", "_", "R", "1">>

\* the first Len(letters) characters of s are the given letters in either case
HasPrefixAnyCase(s, letters) ==
    /\ Len(s) >= Len(letters)
    /\ \A i \in 1..Len(letters) : s[i] = letters[i] \/ LowerChar(s[i]) = letters[i]

\* C9: port_priority_score is total into {0,1,2,3}: absent gives 0, an
\* eth-prefixed value 3, else an ae-prefixed value 2, else 1, prefixes taken
\* case-insensitively; ports differing only in letter case score alike.
C9_ScoreTotalCaseInsensitive ==
    pc = "scored" =>
        /\ ret \in 0..3
        /\ ret = IF isna(port) THEN 0
                 ELSE IF HasPrefixAnyCase(port, <<"e", "t", "h">>) THEN 3
                 ELSE IF HasPrefixAnyCase(port, <<"a", "e">>) THEN 2
                 ELSE 1
        /\ \A q \in PortStrings :
              (~isna(port) /\ lower(q) = lower(port)) => port_priority_score(q) = ret

\* C9 witness: a mixed-case eth port has been scored 3.
C9_Witness ==
    /\ pc = "scored"
    /\ port = <<"E", "t", "h">>
    /\ ret = 3

(***************************************************************************)
(* Properties of get_preferred_ports                                       *)
(***************************************************************************)
\* positions of the rows of d from src to dst
Directed(d, src, dst) ==
    {i \in 1..Len(d) : d[i].Source = src /\ d[i].Destination = dst}

\* the candidate rows: one direction, the other only when the first is empty
Candidates(d, src, dst) ==
    IF Directed(d, src, dst) # {} THEN Directed(d, src, dst) ELSE Directed(d, dst, src)

First(S) == CHOOSE i \in S : \A j \in S : i <= j

\* the value of column Col the claim describes for the candidate positions
Chosen(d, cand, col) ==
    LET eth == {i \in cand : ~isna(d[i][col]) /\ HasPrefixAnyCase(d[i][col], <<"e", "t", "h">>)}
        ae == {i \in cand : ~isna(d[i][col]) /\ HasPrefixAnyCase(d[i][col], <<"a", "e">>)}
    IN  IF eth # {} THEN d[First(eth)][col]
        ELSE IF ae # {} THEN d[First(ae)][col]
        ELSE d[First(cand)][col]

ChosenPair(d, cand) ==
    <<Chosen(d, cand, "SourcePort"), Chosen(d, cand, "DestinationPort")>>

\* C5 as stated: the result is (absent, absent) if and only if neither
\* direction has a row, and otherwise each port is the first eth value, else
\* the first ae value, else the first candidate row's value of its column.
C5_AbsentIffNoCandidates ==
    pc = "resolved" =>
        LET cand == Candidates(df, source, destination)
        IN  /\ (isna(ret[1]) /\ isna(ret[2])) <=> cand = {}
            /\ cand # {} => ret = ChosenPair(df, cand)

\* C5 amended: the result is the pair (None, None) if and only if neither
\* direction has a row; otherwise each port is the first eth value, else the
\* first ae value, else the first candidate row's value of its column, which
\* is the missing value when that cell is empty.
C5_NoneIffNoCandidates ==
    pc = "resolved" =>
        LET cand == Candidates(df, source, destination)
        IN  /\ ret = <<None, None>> <=> cand = {}
            /\ cand # {} => ret = ChosenPair(df, cand)

\* C5 witness: rows exist in both directions, the forward ones are the
\* candidates, and the source port comes from a later row than the first.
C5_Witness ==
    /\ pc = "resolved"
    /\ Directed(df, source, destination) # {}
    /\ Directed(df, destination, source) # {}
    /\ ret[1] # df[First(Directed(df, source, destination))].SourcePort
    /\ HasPrefixAnyCase(ret[1], <<"a", "e">>)
    /\ isna(ret[2])

(***************************************************************************)
(* Properties of the duplicate resolver and the duplicate port detector    *)
(***************************************************************************)
\* the LinkKey of a row, from its two device names
LinkKey(r) == normalize_link(r.Source, r.Destination)

\* the index labels of the rows of a frame
Labels(d) == {d[i].idx : i \in 1..Len(d)}

\* C2: cleaned and duplicates are disjoint and together hold every input row
\* exactly once, cleaned holds exactly one row for each LinkKey of the input,
\* and no two rows of cleaned share a LinkKey.
C2_CleanedDuplicatesPartition ==
    pc = "deduplicated" =>
        /\ Labels(ret.cleaned) \cap Labels(ret.duplicates) = {}
        /\ Labels(ret.cleaned) \cup Labels(ret.duplicates) = Labels(df)
        /\ Len(ret.cleaned) + Len(ret.duplicates) = Len(df)
        /\ \A i \in 1..Len(ret.cleaned) : ret.cleaned[i] = df[ret.cleaned[i].idx + 1]
        /\ \A i \in 1..Len(ret.duplicates) : ret.duplicates[i] = df[ret.duplicates[i].idx + 1]
        /\ {LinkKey(ret.cleaned[i]) : i \in 1..Len(ret.cleaned)}
              = {LinkKey(df[i]) : i \in 1..Len(df)}
        /\ \A i, j \in 1..Len(ret.cleaned) :
              i # j => LinkKey(ret.cleaned[i]) # LinkKey(ret.cleaned[j])

\* C2 witness: a frame of two links, one of them recorded twice in opposite
\* directions, has been split into two cleaned rows and one duplicate.
C2_Witness ==
    /\ pc = "deduplicated"
    /\ Len(ret.cleaned) = 2
    /\ Len(ret.duplicates) = 1
    /\ \E i \in 1..Len(df) :
          /\ df[i].Source = ret.duplicates[1].Destination
          /\ df[i].Destination = ret.duplicates[1].Source

\* the rows of d in the LinkGroup of row r
Group(d, r) == {i \in 1..Len(d) : LinkKey(d[i]) = LinkKey(r)}

\* C3: the row kept for a LinkGroup has the group's maximum Total Priority,
\* and among the rows of the group with that maximum it is the one that
\* comes first in the input.
C3_KeptIsFirstMaximum ==
    pc = "deduplicated" =>
        \A k \in 1..Len(ret.cleaned) :
            LET kept == ret.cleaned[k]
                group == Group(df, kept)
            IN  /\ \A i \in group : TotalPriority(df[i]) <= TotalPriority(kept)
                /\ \A i \in group :
                      TotalPriority(df[i]) = TotalPriority(kept) => kept.idx <= df[i].idx

\* the half of C3 that does not depend on the order of ties: the kept row
\* has the maximum Total Priority of its LinkGroup
KeptIsMaximum ==
    pc = "deduplicated" =>
        \A k \in 1..Len(ret.cleaned) :
            \A i \in Group(df, ret.cleaned[k]) :
                TotalPriority(df[i]) <= TotalPriority(ret.cleaned[k])

\* the composite key of a device and a port
CompositeKey(device, p) == strip(str(device)) \o <<"_">> \o strip(str(p))

\* row i's source-side (destination-side) key is also that of another row
SourceReused(d, i) ==
    \E j \in 1..Len(d) :
        /\ j # i
        /\ CompositeKey(d[j].Source, d[j].SourcePort) = CompositeKey(d[i].Source, d[i].SourcePort)
DestinationReused(d, i) ==
    \E j \in 1..Len(d) :
        /\ j # i
        /\ CompositeKey(d[j].Destination, d[j].DestinationPort)
              = CompositeKey(d[i].Destination, d[i].DestinationPort)

\* C6: a row is flagged Source Port Duplicate iff its source-side composite
\* key is on more than one row, Destination Port Duplicate iff its
\* destination-side key is, the two key spaces counted apart; the output is
\* exactly the rows with a flag set, in input order.
C6_FlagsByKeySpace ==
    pc = "ports_checked" =>
        LET flagged == {i \in 1..Len(df) : SourceReused(df, i) \/ DestinationReused(df, i)}
        IN  /\ Labels(ret) = {df[i].idx : i \in flagged}
            /\ Len(ret) = Cardinality(flagged)
            /\ \A k, l \in 1..Len(ret) : k < l => ret[k].idx < ret[l].idx
            /\ \A k \in 1..Len(ret) :
                  LET i == ret[k].idx + 1
                  IN  /\ ret[k].Source = df[i].Source
                      /\ ret[k].SourcePort = df[i].SourcePort
                      /\ ret[k].Destination = df[i].Destination
                      /\ ret[k].DestinationPort = df[i].DestinationPort
                      /\ ret[k].SourcePortDuplicate = SourceReused(df, i)
                      /\ ret[k].DestinationPortDuplicate = DestinationReused(df, i)

\* C6 witness: two rows share a source-side key and are output; a third row
\* uses that key once on its destination side and is not output.
C6_Witness ==
    /\ pc = "ports_checked"
    /\ Len(df) = 3
    /\ Len(ret) = 2
    /\ ret[1].SourcePortDuplicate /\ ~ret[1].DestinationPortDuplicate
    /\ \E i \in 1..Len(df) :
          /\ df[i].idx \notin Labels(ret)
          /\ CompositeKey(df[i].Destination, df[i].DestinationPort) = ret[1].SourcePlusPort

(***************************************************************************)
(* Properties of the Panel 1 run                                           *)
(***************************************************************************)
\* the LinkKey of an output record, from its two device names
RecordKey(rec) == normalize_link(rec.Source, rec.Destination)

LinkKeys(d) == {LinkKey(d[i]) : i \in 1..Len(d)}

\* the Main Analysis output holds one record for each LinkKey of A and no
\* other, with Match Status "Missing" iff the key is not a key of B
OneRecordPerLinkKey ==
    /\ Len(analysis_results) = Cardinality(LinkKeys(main_df))
    /\ {RecordKey(analysis_results[k]) : k \in 1..Len(analysis_results)} = LinkKeys(main_df)
    /\ \A k \in 1..Len(analysis_results) :
          analysis_results[k].MatchStatus =
              IF RecordKey(analysis_results[k]) \in LinkKeys(match_df)
              THEN "Found" ELSE "Missing"

\* C1: for any datasets A and B the run ends with a Main Analysis output that
\* holds exactly one record per distinct LinkKey of A, its Match Status
\* "Missing" iff the LinkKey is not among the LinkKeys of B, else "Found".
C1_OneRecordPerLinkKey ==
    pc \in {"done", "error"} => OneRecordPerLinkKey

\* the runs that reach the reports do satisfy C1's statement
MatcherCompleteWhenDone ==
    pc = "done" => OneRecordPerLinkKey

\* the <original, corrected> port texts the claim expects for row i of d: none
\* for a group of one row or a row whose trimmed ports equal the corrected
\* pair, an absent corrected port standing as "N/A"
ExpectedCorrection(d, i) ==
    LET group == Group(d, d[i])
        rep == d[First(group)]
        pair == ChosenPair(d, Candidates(d, rep.Source, rep.Destination))
        shown == [c \in 1..2 |-> IF isna(pair[c]) THEN <<"N", "/", "A">> ELSE strip(pair[c])]
        orig == <<strip(str(d[i].SourcePort)), strip(str(d[i].DestinationPort))>>
    IN  IF Cardinality(group) >= 2 /\ orig # shown
        THEN << <<orig[1], shown[1], orig[2], shown[2]>> >>
        ELSE << >>

RECURSIVE ExpectedCorrections(_, _)
ExpectedCorrections(d, i) ==
    IF i > Len(d) THEN << >>
    ELSE ExpectedCorrection(d, i) \o ExpectedCorrections(d, i + 1)

\* the <original, corrected> port texts of the records emitted
EmittedCorrections ==
    [k \in 1..Len(port_corrections) |->
        <<port_corrections[k].OriginalSourcePort, port_corrections[k].CorrectedSourcePort,
          port_corrections[k].OriginalDestinationPort,
          port_corrections[k].CorrectedDestinationPort>>]

ScenarioA ==
    <<[idx |-> 0, Source |-> R1, SourcePort |-> <<"E", "t", "h", "1", "/", "1">>,
       Destination |-> R2, DestinationPort |-> <<"E", "t", "h", "2", "/", "1">>],
      [idx |-> 1, Source |-> R1, SourcePort |-> <<"a", "e", "1">>,
       Destination |-> R2, DestinationPort |-> <<"a", "e", "2">>]>>

CorrectionPerDeviatingRow ==
    /\ EmittedCorrections = ExpectedCorrections(main_df, 1)
    /\ main_df = ScenarioA =>
          EmittedCorrections =
              << << <<"a", "e", "1">>, <<"E", "t", "h", "1", "/", "1">>,
                    <<"a", "e", "2">>, <<"E", "t", "h", "2", "/", "1">> >> >>

\* C4: once the correction loop has run, the records emitted are exactly one
\* for each row of A whose LinkGroup has at least two rows and whose trimmed
\* source or destination port differs from the corrected pair of the group's
\* representative pair over all of A, none for a group of one row; for the
\* two-row scenario, one record, for the second row, corrected to
\* Eth1/1 and Eth2/1.
C4_CorrectionPerDeviatingRow ==
    pc \in {"analysis", "done", "error"} => CorrectionPerDeviatingRow

\* the runs whose correction loop completes do satisfy C4's statement
CorrectionsCompleteWhenNoError ==
    pc \in {"analysis", "done"} => CorrectionPerDeviatingRow

\* C10: the records of the Main Analysis output, and those of the Missing
\* Links report, appear in non-decreasing LinkKey order.
C10_OutputInLinkKeyOrder ==
    /\ \A k, l \in 1..Len(analysis_results) :
          k < l => TupleLeq(RecordKey(analysis_results[k]), RecordKey(analysis_results[l]))
    /\ \A k, l \in 1..Len(missing_results) :
          k < l => TupleLeq(RecordKey(missing_results[k]), RecordKey(missing_results[l]))

(***************************************************************************)
(* Missing ports in the Port Correction Analyzer                           *)
(***************************************************************************)
\* the rows of d that are the first of a LinkGroup of at least two rows
MultiRowHeads(d) ==
    {i \in 1..Len(d) : First(Group(d, d[i])) = i /\ Cardinality(Group(d, d[i])) >= 2}

\* the corrected pair selected for the LinkGroup whose first row is row i
SelectedPair(d, i) ==
    ChosenPair(d, Candidates(d, d[i].Source, d[i].Destination))

\* the correction records emitted for the LinkGroup of row i
RecordsOfGroup(d, i) ==
    {k \in 1..Len(port_corrections) : RecordKey(port_corrections[k]) = LinkKey(d[i])}

\* C11: when the corrected source or destination port selected for a
\* multi-row LinkGroup is absent, the analysis still completes (it does not
\* end in the error message) and the group's correction records show that
\* corrected port as the text "N/A".
C11_AbsentCorrectedPortShownAsNA ==
    pc \in {"analysis", "done", "error"} =>
        \A i \in MultiRowHeads(main_df) :
            LET pair == SelectedPair(main_df, i)
                recs == RecordsOfGroup(main_df, i)
            IN  (isna(pair[1]) \/ isna(pair[2])) =>
                    /\ pc # "error"
                    /\ recs # {}
                    /\ \A k \in recs :
                          /\ isna(pair[1]) =>
                                port_corrections[k].CorrectedSourcePort = <<"N", "/", "A">>
                          /\ isna(pair[2]) =>
                                port_corrections[k].CorrectedDestinationPort = <<"N", "/", "A">>

(***************************************************************************)
(* The Duplicate Links Summary against the resolver                        *)
(***************************************************************************)
\* the rows of frame d that belong to LinkGroup key
RowsOfKey(d, key) == SelectSeq(d, LAMBDA r : LinkKey(r) = key)

\* the texts that list exactly the Link IDs of rows, in any order
Listings(rows) ==
    {comma_join([j \in 1..Len(rows) |-> rows[p[j]].LinkID]) : p \in IndexOrders(Len(rows))}

\* C12: for every LinkGroup of more than one row the summary has a record
\* whose "To Be Removed" lists exactly the Link IDs of the group's rows in the
\* duplicates returned by remove_duplicate_links_with_priority, and the row
\* the summary treats as kept is the group's row in cleaned.
C12_SummaryAgreesWithResolver ==
    pc = "summarised" =>
        \A i \in 1..Len(df) :
            Cardinality(Group(df, df[i])) > 1 =>
                LET key == LinkKey(df[i])
                    removed == RowsOfKey(ret.duplicates, key)
                    kept == RowsOfKey(ret.cleaned, key)
                IN  /\ \E k \in 1..Len(ret.summary) :
                          /\ normalize_link(ret.summary[k].Source,
                                            ret.summary[k].Destination) = key
                          /\ ret.summary[k].ToBeRemoved \in Listings(removed)
                    /\ Len(kept) = 1
                    /\ kept_row(all_duplicates(with_link_id(df)), key).LinkID = kept[1].LinkID

(***************************************************************************)
(* Flags of find_duplicate_ports against (device, port) pairs              *)
(***************************************************************************)
\* some other row of d has the trimmed device and the trimmed port of r in
\* the columns dev and prt
PairReused(d, r, dev, prt) ==
    \E j \in 1..Len(d) :
        /\ d[j].idx # r.idx
        /\ strip(str(d[j][dev])) = strip(str(r[dev]))
        /\ strip(str(d[j][prt])) = strip(str(r[prt]))

\* C14: a row is flagged Source Port Duplicate only if some other row has the
\* same trimmed Source device and the same trimmed Source Port, and flagged
\* Destination Port Duplicate only if some other row has the same trimmed
\* Destination device and Destination Port, also when names or ports
\* contain "_".
C14_FlaggedOnlyOnSamePair ==
    pc = "ports_checked" =>
        \A k \in 1..Len(ret) :
            /\ ret[k].SourcePortDuplicate =>
                  PairReused(df, ret[k], "Source", "SourcePort")
            /\ ret[k].DestinationPortDuplicate =>
                  PairReused(df, ret[k], "Destination", "DestinationPort")

(***************************************************************************)
(* Correction records for rows that agree with the representative          *)
(***************************************************************************)
\* row r describes the port assignment of row rep: the same devices and ports,
\* or the devices swapped together with their ports
SameAssignment(r, rep) ==
    \/ /\ r.Source = rep.Source /\ r.SourcePort = rep.SourcePort
       /\ r.Destination = rep.Destination /\ r.DestinationPort = rep.DestinationPort
    \/ /\ r.Source = rep.Destination /\ r.SourcePort = rep.DestinationPort
       /\ r.Destination = rep.Source /\ r.DestinationPort = rep.SourcePort

\* every row of the LinkGroup of row i describes the assignment of row i
ConsistentGroup(d, i) == \A j \in Group(d, d[i]) : SameAssignment(d[j], d[i])

\* C15: when every row of a multi-row LinkGroup is equal to the group's
\* representative row, or is the representative with source and destination
\* swapped together with their ports, the Port Correction Analyzer emits no
\* correction record for that group.
C15_NoCorrectionForConsistentGroup ==
    pc \in {"analysis", "done"} =>
        \A i \in MultiRowHeads(main_df) :
            ConsistentGroup(main_df, i) => RecordsOfGroup(main_df, i) = {}

(***************************************************************************)
(* The Phoenix cache across script runs                                    *)
(***************************************************************************)
\* the cache holds bytes that panels 2 and 3 take as present
CacheNonEmpty == truthy(session_state)

\* after a run with a non-empty cache, the cache is the most recent Panel 1
\* Phoenix upload, both panels read it and neither shows an uploader; a
\* panel reads its own uploader only with the cache empty
CacheServesPanels ==
    /\ CacheNonEmpty =>
          /\ uploaded # None
          /\ session_state = getvalue(uploaded)
          /\ rendered.dup_ports = [source |-> "phoenix_bytes", read |-> session_state]
          /\ rendered.remove_dup = [source |-> "phoenix_bytes", read |-> session_state]
          /\ ~rendered.match_db_dup
          /\ ~rendered.file_remove_dup
    /\ rendered.dup_ports.source = "uploader" => ~CacheNonEmpty
    /\ rendered.remove_dup.source = "uploader" => ~CacheNonEmpty

\* the cache changes only in a run where Panel 1's "Phoenix Database" holds a
\* file, and then to that file's bytes
CacheWrittenByPanel1 ==
    session_state' # session_state =>
        /\ widgets'.match_db # None
        /\ session_state' = getvalue(widgets'.match_db)

\* C13: the cached bytes are written only when a Phoenix file is uploaded in
\* Panel 1 and never changed by panels 2 and 3; after any sequence of script
\* runs, whenever the cache is non-empty both panels analyse exactly the
\* cached bytes of the most recent Panel 1 Phoenix upload and offer no
\* uploader, and they read their own uploader only while the cache is empty.
C13_CacheSharedAcrossRuns ==
    /\ [][CacheWrittenByPanel1]_vars
    /\ [](pc = "session" => CacheServesPanels)

\* the part of C13 that holds: the cache is written by Panel 1 alone, and
\* every run that Panel 1 does not end with st.stop() serves panels 2 and 3
\* from the cache
CacheServesPanelsThatRun ==
    /\ [][CacheWrittenByPanel1]_vars
    /\ [](pc = "session" /\ ~rendered.stopped => CacheServesPanels)

====
